---- MODULE Spec2Model ----
(***************************************************************************)
(* Model of the market-data cache/fetcher of the Ultimate RSI Tracker      *)
(* (class FixedStockData of ultimate_rsi_tracker_complete.py; the same     *)
(* class is repeated verbatim in ultimate_rsi_tracker.py).                 *)
(* RSICalculator.calculate_rsi, _filter_data_for_period and the two        *)
(* formatters are pure: the variable calc holds the arguments and the      *)
(* result of one application.  The variable app holds the fields of the   *)
(* WidgetFixedRSITracker object and the position of its threads.           *)
(*                                                                         *)
(* A DataFrame is a record [columns, rows]; a row is a record with the     *)
(* index timestamp ts (epoch seconds), the flag nan (Close is missing),    *)
(* the Close value and, when the frame has a Volume column, a volume.      *)
(* Strings that the code builds by formatting (the cache key) are          *)
(* sequences of tokens, so that concatenation is \o.                       *)
(***************************************************************************)
EXTENDS Integers, Sequences, FiniteSets, TLC

VARIABLES cache, now, lastCall, fetchLog, calc, app

vars == <<cache, now, lastCall, fetchLog, calc, app>>

----------------------------------------------------------------------------
(* Bounds of the model *)

\* the clock value at construction (epoch seconds, later than 3650 days)
StartTime == 400000000
\* the clock runs from StartTime to StartTime + MaxElapsed
MaxElapsed == 300
\* keys that may be cached at the same time
MaxCacheEntries == 2

(* Program constants *)

cache_timeout == 300
Days5y == 1825
Days10y == 3650
SecondsPerDay == 86400

----------------------------------------------------------------------------
(* Inputs *)

Symbols == { <<"BRK">>, <<"BRK", "_", "B">> }

Periods == {"1d", "5d", "1mo", "3mo", "6mo", "1y", "2y", "5y", "10y", "max"}

\* the requests that the callers of Spec make
Requests == ({<<"BRK">>} \X {"6mo", "5y", "10y", "max"})
              \cup ({<<"BRK", "_", "B">>} \X {"6mo"})

\* the requests that the callers of SpecFetch make
FetchSymbols == {<<"BRK">>}
FetchPeriods == {"1d", "5d", "6mo", "5y", "10y", "max"}

\* the amounts by which the clock advances between two calls
TickSteps == {cache_timeout \div 2, cache_timeout - 1}

Cutoff5At0 == StartTime - Days5y * SecondsPerDay
Cutoff10At0 == StartTime - Days10y * SecondsPerDay

Bar(ts, close) == [ts |-> ts, nan |-> FALSE, close |-> close, volume |-> 1000]
BarNaN(ts) == [ts |-> ts, nan |-> TRUE, close |-> 0, volume |-> 1000]
BarNoVol(ts, close) == [ts |-> ts, nan |-> FALSE, close |-> close]

EmptyFrame == [columns |-> {"Close", "Volume"}, rows |-> <<>>]

\* a response with bars on both sides of the 5y and 10y cutoffs, a bar with
\* a missing close and a bar with close 0
FrameA ==
  [columns |-> {"Close", "Volume"},
   rows |-> << Bar(Cutoff10At0 - SecondsPerDay, 5),
               Bar(Cutoff10At0 + 100, 6),
               BarNaN(Cutoff5At0 - SecondsPerDay),
               Bar(Cutoff5At0 + 100, 7),
               Bar(StartTime - 2 * SecondsPerDay, 0),
               Bar(StartTime - SecondsPerDay, 8) >>]

\* a response without a Volume column, with a negative close
FrameB ==
  [columns |-> {"Close"},
   rows |-> << BarNoVol(Cutoff5At0 + 400, 9),
               BarNoVol(StartTime - SecondsPerDay, 0 - 3),
               BarNoVol(StartTime - 3600, 11) >>]

\* a response in which no bar survives cleaning
FrameAllBad ==
  [columns |-> {"Close", "Volume"},
   rows |-> << BarNaN(StartTime - 2 * SecondsPerDay),
               Bar(StartTime - SecondsPerDay, 0) >>]

Frames == {EmptyFrame, FrameAllBad, FrameA, FrameB}

\* what ticker.history does: raise, or return a frame
HistOutcomes == {[raised |-> TRUE, frame |-> EmptyFrame]}
                  \cup {[raised |-> FALSE, frame |-> f] : f \in Frames}

\* what ticker.info does: raise, or return one of these dictionaries
InfoOutcomes == {"raise", "empty", "noprice", "regular", "current"}

InfoDict(kind) ==
  CASE kind = "empty" -> {}
    [] kind = "noprice" -> {"longName"}
    [] kind = "regular" -> {"regularMarketPrice", "longName"}
    [] kind = "current" -> {"currentPrice"}
    [] OTHER -> {}

Provider(ticker, info, h1, h2) ==
  [ticker |-> ticker, info |-> info, h1 |-> h1, h2 |-> h2]

HistRaises == [raised |-> TRUE, frame |-> EmptyFrame]

\* the second history call is only made after an empty first response
SecondOutcomes(h1) ==
  IF ~h1.raised /\ h1.frame = EmptyFrame THEN HistOutcomes ELSE {HistRaises}

\* every behaviour of the provider, written once: the answers that a call
\* cannot reach (after a raise, after a metadata without price) are fixed
Providers ==
  {Provider("raise", "raise", HistRaises, HistRaises)}
    \cup {Provider("ok", i, HistRaises, HistRaises) : i \in {"empty", "noprice"}}
    \cup UNION {UNION {{Provider("ok", i, h1, h2) : h2 \in SecondOutcomes(h1)} :
                         h1 \in HistOutcomes} :
                  i \in {"raise", "regular", "current"}}

\* a provider that knows the symbol and raises or returns bars
SteadyProviders ==
  {[ticker |-> "ok", info |-> "regular", h1 |-> h, h2 |-> h] :
     h \in {[raised |-> TRUE, frame |-> EmptyFrame],
            [raised |-> FALSE, frame |-> FrameA],
            [raised |-> FALSE, frame |-> FrameB]}}

----------------------------------------------------------------------------
(* FixedStockData: pure parts *)

get_actual_fetch_period(period) ==
  IF period \in {"max", "10y", "5y"} THEN "max" ELSE period

\* a key that leaves out the requested period
make_cache_key_without_period(symbol, fetch_period, period) ==
  symbol \o <<"_", fetch_period>>

\* a key that leaves out the symbol
make_cache_key_without_symbol(symbol, fetch_period, period) ==
  <<fetch_period, "_", period>>

make_cache_key(symbol, fetch_period, period) ==
  symbol \o <<"_", fetch_period, "_", period>>

\* the comparison turned around
is_fresh_inverted(current_time, timestamp) ==
  current_time - timestamp > cache_timeout

\* the boundary counted as fresh
is_fresh_inclusive(current_time, timestamp) ==
  current_time - timestamp <= cache_timeout

is_fresh(current_time, timestamp) ==
  current_time - timestamp < cache_timeout

\* the bar on the cutoff is dropped
KeepAfter(rows, cutoff) == SelectSeq(rows, LAMBDA r : r.ts > cutoff)

KeepFrom(rows, cutoff) == SelectSeq(rows, LAMBDA r : r.ts >= cutoff)

\* same: the returned object is the argument itself, not a new frame
filter_data_for_period(data, period, clock) ==
  IF period = "5y"
  THEN [frame |-> [data EXCEPT !.rows =
                     KeepFrom(data.rows, clock - Days5y * SecondsPerDay)],
        same |-> FALSE]
  ELSE IF period = "10y"
  THEN [frame |-> [data EXCEPT !.rows =
                     KeepFrom(data.rows, clock - Days10y * SecondsPerDay)],
        same |-> FALSE]
  ELSE [frame |-> data, same |-> TRUE]

\* only the empty dictionary counts as unresolvable
no_price_only_empty(info) == info = {}

no_price(info) ==
  info = {} \/ ("regularMarketPrice" \notin info /\ "currentPrice" \notin info)

is_empty(data) == Len(data.rows) = 0

add_volume(data) ==
  IF "Volume" \notin data.columns
  THEN [columns |-> data.columns \cup {"Volume"},
        rows |-> [i \in 1..Len(data.rows) |->
                    [ts |-> data.rows[i].ts, nan |-> data.rows[i].nan,
                     close |-> data.rows[i].close, volume |-> 0]]]
  ELSE data

dropna_close(data) ==
  [data EXCEPT !.rows = SelectSeq(data.rows, LAMBDA r : ~r.nan)]

\* close 0 let through
positive_close_or_zero(data) ==
  [data EXCEPT !.rows = SelectSeq(data.rows, LAMBDA r : r.close >= 0)]

positive_close(data) ==
  [data EXCEPT !.rows = SelectSeq(data.rows, LAMBDA r : r.close > 0)]

\* no bar is dropped
clean_keeps_all(data) == add_volume(data)

\* lines 111-115
clean(data) == positive_close(dropna_close(add_volume(data)))

----------------------------------------------------------------------------
(* FixedStockData.get_stock_data *)

EmptyMap == [k \in {} |-> 0]

Put(map, key, value) ==
  [k \in (DOMAIN map) \cup {key} |-> IF k = key THEN value ELSE map[k]]

\* one ticker.history call and what it did
HistoryCall(period, interval, outcome) ==
  [period |-> period, interval |-> interval,
   raised |-> outcome.raised, frame |-> outcome.frame]

\* the result of a call: the cache afterwards, what the caller gets (kind is
\* "series", "none" or "raised"), whether the returned object is the cached
\* instance, where the data came from, and what was asked of the provider
Outcome(c, kind, frame, alias, source, ticker, info, hist) ==
  [cache |-> c, kind |-> kind, frame |-> frame, alias |-> alias,
   source |-> source, ticker |-> ticker, info |-> info, hist |-> hist]

\* a lookup that finds nothing empties the cache
not_found_clears_cache(c, ticker, info, hist) ==
  Outcome(EmptyMap, "none", EmptyFrame, FALSE, "none", ticker, info, hist)

\* lines 127-128
not_found(c, ticker, info, hist) ==
  Outcome(c, "none", EmptyFrame, FALSE, "none", ticker, info, hist)

\* the exception leaves get_stock_data
on_exception_propagates(c, ticker, info, hist) ==
  Outcome(c, "raised", EmptyFrame, FALSE, "none", ticker, info, hist)

\* lines 130-132: except Exception: return None
on_exception(c, ticker, info, hist) ==
  Outcome(c, "none", EmptyFrame, FALSE, "none", ticker, info, hist)

\* no second fetch
history_without_fallback(period, interval, prov) ==
  <<HistoryCall(period, interval, prov.h1)>>

\* lines 97-99 and 101-103: one fetch, and a second one if it came back empty
history_with_fallback(period, interval, prov) ==
  LET first == HistoryCall(period, interval, prov.h1)
  IN IF first.raised \/ ~is_empty(first.frame)
     THEN <<first>>
     ELSE <<first, HistoryCall(period, "default", prov.h2)>>

\* 5y and 10y asked of the provider under their own name
fetch_history_named_period(period, prov) ==
  IF period \in {"1d"} THEN history_with_fallback(period, "5m", prov)
  ELSE IF period \in {"5d"} THEN history_with_fallback(period, "1h", prov)
  ELSE <<HistoryCall(period, "default", prov.h1)>>

\* lines 96-108
fetch_history(period, prov) ==
  IF period \in {"1d"} THEN history_with_fallback(period, "5m", prov)
  ELSE IF period \in {"5d"} THEN history_with_fallback(period, "1h", prov)
  ELSE IF period \in {"max", "10y", "5y"}
  THEN <<HistoryCall("max", "default", prov.h1)>>
  ELSE <<HistoryCall(period, "default", prov.h1)>>

\* the filtered series is stored
cache_entry_filtered(data, period, current_time) ==
  [data |-> filter_data_for_period(data, period, current_time).frame,
   timestamp |-> current_time]

\* line 119: what is stored under the key
cache_entry(data, period, current_time) ==
  [data |-> data, timestamp |-> current_time]

\* the cache is replaced by a cache of this entry alone
cache_store_alone(c, cache_key, entry) == [k \in {cache_key} |-> entry]

\* an entry that is there is not written again
cache_store_if_absent(c, cache_key, entry) ==
  IF cache_key \in DOMAIN c THEN c ELSE Put(c, cache_key, entry)

\* line 119: self.cache[cache_key] = ...
cache_store(c, cache_key, entry) == Put(c, cache_key, entry)

\* lines 110-128
validate_and_store(c, current_time, cache_key, period, data, info, hist) ==
  IF ~is_empty(data)
  THEN LET cleaned == clean(data)
       IN IF Len(cleaned.rows) > 0
          THEN Outcome(cache_store(c, cache_key,
                         cache_entry(cleaned, period, current_time)),
                       "series",
                       filter_data_for_period(cleaned, period,
                                              current_time).frame,
                       FALSE, "provider", "ok", info, hist)
          ELSE not_found(c, "ok", info, hist)
  ELSE not_found(c, "ok", info, hist)

\* a failed metadata lookup counts as an unresolvable symbol
metadata_rejects_on_error(outcome) ==
  outcome = "raise" \/ no_price(InfoDict(outcome))

\* lines 86-93: the lookup returned, and what it returned has no price
metadata_rejects(outcome) ==
  outcome # "raise" /\ no_price(InfoDict(outcome))

\* lines 81-132
fetch_and_store(c, current_time, cache_key, period, prov) ==
  IF prov.ticker = "raise"
  THEN on_exception(c, "raise", "unused", <<>>)
  ELSE IF metadata_rejects(prov.info)
  THEN not_found(c, "ok", prov.info, <<>>)
  ELSE LET hist == fetch_history(period, prov)
           last == hist[Len(hist)]
       IN IF last.raised
          THEN on_exception(c, "ok", prov.info, hist)
          ELSE validate_and_store(c, current_time, cache_key, period,
                                  last.frame, prov.info, hist)

\* lines 67-132
get_stock_data(c, current_time, symbol, period, prov) ==
  LET fetch_period == get_actual_fetch_period(period)
      cache_key == make_cache_key(symbol, fetch_period, period)
  IN IF cache_key \in DOMAIN c
        /\ is_fresh(current_time, c[cache_key].timestamp)
     THEN LET f == filter_data_for_period(c[cache_key].data, period,
                                          current_time)
          IN Outcome(c, "series", f.frame, f.same, "cache",
                     "unused", "unused", <<>>)
     ELSE fetch_and_store(c, current_time, cache_key, period, prov)

----------------------------------------------------------------------------
(* The state machine *)

NoEntry == 0 - 1

NoCall ==
  [symbol |-> <<>>, period |-> "", time |-> StartTime, entryAge |-> NoEntry,
   kind |-> "nocall", frame |-> EmptyFrame, alias |-> FALSE,
   source |-> "none", ticker |-> "unused", info |-> "unused", hist |-> <<>>]

\* no pure function has been applied
NoCalc == [op |-> "none"]

\* no window has been built
NoApp == [phase |-> "none"]

Init ==
  /\ cache = EmptyMap
  /\ now = StartTime
  /\ lastCall = NoCall
  /\ fetchLog = EmptyMap
  /\ calc = NoCalc
  /\ app = NoApp

\* the age of the entry that a lookup of (symbol, period) finds
EntryAge(c, clock, symbol, period) ==
  LET key == make_cache_key(symbol, get_actual_fetch_period(period), period)
  IN IF key \in DOMAIN c THEN clock - c[key].timestamp ELSE NoEntry

\* a caller calls get_stock_data(symbol, period) and the provider answers
\* prov. fetchLog remembers, per request, the last fetch that gave a series:
\* when it happened, the provider's response and what the caller got.
GetStockData(symbol, period, prov) ==
  \E out \in {get_stock_data(cache, now, symbol, period, prov)} :
     /\ Cardinality(DOMAIN out.cache) <= MaxCacheEntries
     /\ cache' = out.cache
     /\ lastCall' =
          [symbol |-> symbol, period |-> period, time |-> now,
           entryAge |-> EntryAge(cache, now, symbol, period),
           kind |-> out.kind, frame |-> out.frame, alias |-> out.alias,
           source |-> out.source, ticker |-> out.ticker,
           info |-> out.info, hist |-> out.hist]
     /\ fetchLog' =
          IF out.source = "provider"
          THEN Put(fetchLog, <<symbol, period>>,
                   [at |-> now, resp |-> out.hist[Len(out.hist)].frame,
                    ret |-> out.frame])
          ELSE fetchLog
     /\ UNCHANGED <<now, calc, app>>

\* time passes
Tick(d) ==
  /\ now + d <= StartTime + MaxElapsed
  /\ now' = now + d
  /\ UNCHANGED <<cache, lastCall, fetchLog, calc, app>>

\* Spec: the cache over time. The callers' requests, answered by a provider
\* that knows the symbol and raises or returns bars.
Request(symbol, period) ==
  \E prov \in SteadyProviders : GetStockData(symbol, period, prov)

Next ==
  \/ \E r \in Requests : Request(r[1], r[2])
  \/ \E d \in TickSteps : Tick(d)

Spec == Init /\ [][Next]_vars

\* SpecFetch: one fetch after the other at one clock value, for every
\* behaviour of the provider.
Fetch(symbol, period) ==
  \E prov \in Providers : GetStockData(symbol, period, prov)

NextFetch ==
  \E symbol \in FetchSymbols, period \in FetchPeriods : Fetch(symbol, period)

SpecFetch == Init /\ [][NextFetch]_vars

\* SpecFrame: the cache over time, for every behaviour of the provider.
FrameRequests == {<<"BRK">>} \X {"5d", "5y"}

FrameCall(symbol, period) ==
  \E prov \in Providers : GetStockData(symbol, period, prov)

NextFrame ==
  \/ \E r \in FrameRequests : FrameCall(r[1], r[2])
  \/ \E d \in TickSteps : Tick(d)

SpecFrame == Init /\ [][NextFrame]_vars

----------------------------------------------------------------------------
(* SpecKey: the cache key of one request, as the string of its characters  *)

MaxSymbolLen == 3

\* the characters of the symbols: the separator and two characters of the
\* period names
SymbolChars == {"_", "1", "d"}

KeySymbols == UNION {[1..n -> SymbolChars] : n \in 0..MaxSymbolLen}

\* the characters of a token of a key
Chars(token) ==
  CASE token = "1d" -> <<"1", "d">>
    [] token = "5d" -> <<"5", "d">>
    [] token = "1mo" -> <<"1", "m", "o">>
    [] token = "3mo" -> <<"3", "m", "o">>
    [] token = "6mo" -> <<"6", "m", "o">>
    [] token = "1y" -> <<"1", "y">>
    [] token = "2y" -> <<"2", "y">>
    [] token = "5y" -> <<"5", "y">>
    [] token = "10y" -> <<"1", "0", "y">>
    [] token = "max" -> <<"m", "a", "x">>
    [] OTHER -> <<token>>

RECURSIVE Str(_)
\* the string that the tokens format to
Str(tokens) ==
  IF tokens = <<>> THEN <<>>
  ELSE Chars(tokens[1]) \o Str(SubSeq(tokens, 2, Len(tokens)))

\* lines 69-70: f"{symbol}_{fetch_period}_{period}"
cache_key_string(symbol, period) ==
  Str(make_cache_key(symbol, get_actual_fetch_period(period), period))

InitKey ==
  /\ cache = EmptyMap
  /\ now = StartTime
  /\ lastCall = NoCall
  /\ fetchLog = EmptyMap
  /\ app = NoApp
  /\ calc \in [op : {"key"}, symbol : KeySymbols, period : Periods,
               done : {FALSE}, key : {<<>>}]

MakeKey ==
  /\ calc.done = FALSE
  /\ calc' = [calc EXCEPT !.key = cache_key_string(calc.symbol, calc.period),
                          !.done = TRUE]
  /\ UNCHANGED <<cache, now, lastCall, fetchLog, app>>

NextKey == MakeKey

SpecKey == InitKey /\ [][NextKey]_vars

----------------------------------------------------------------------------
(* SpecRace: the update thread and the chart load of the main thread call  *)
(* get_stock_data on the one FixedStockData object.  A call is three       *)
(* steps: the lookup (lines 69-79), the provider's answer (81-117) and     *)
(* the store (119); the steps of the two callers interleave.               *)

Workers == {"update", "chart"}

Other(w) == IF w = "update" THEN "chart" ELSE "update"

\* line 841 asks for 1mo, line 455 for the period of the chart
RaceRequests(w) ==
  IF w = "update" THEN {<<"BRK">>} \X {"1mo"}
  ELSE {<<"BRK">>} \X {"1mo", "5y"}

NoCacheEntry == [data |-> EmptyFrame, timestamp |-> 0]

\* a caller that is not inside get_stock_data; result is how its last call
\* ended and entry what that call stored, raced whether that call passed
\* the lookup while the other caller was past the lookup of the same key
IdleWorker ==
  [pc |-> "idle", period |-> "", key |-> <<>>, time |-> 0,
   entry |-> NoCacheEntry, result |-> "none", raced |-> FALSE]

InFlight(w, key) ==
  app.w[w].pc \in {"fetching", "storing"} /\ app.w[w].key = key

InitRace ==
  /\ cache = EmptyMap
  /\ now = StartTime
  /\ lastCall = NoCall
  /\ fetchLog = EmptyMap
  /\ calc = NoCalc
  /\ app = [phase |-> "race", w |-> [w \in Workers |-> IdleWorker],
            lastStore |-> EmptyMap]

\* lines 69-79: the key, the clock, and the lookup
Lookup(w, symbol, period) ==
  LET key == make_cache_key(symbol, get_actual_fetch_period(period), period)
  IN /\ app.w[w].pc = "idle"
     /\ app' =
          [app EXCEPT !.w[w] =
             IF key \in DOMAIN cache /\ is_fresh(now, cache[key].timestamp)
             THEN [IdleWorker EXCEPT !.period = period, !.key = key,
                                     !.time = now, !.result = "cache"]
             ELSE [IdleWorker EXCEPT !.pc = "fetching", !.period = period,
                                     !.key = key, !.time = now,
                                     !.raced = InFlight(Other(w), key)]]
     /\ UNCHANGED <<cache, now, lastCall, fetchLog, calc>>

\* lines 81-117: the provider answers; a series that survives the cleaning
\* is about to be stored with the time taken before the lookup
Fetched(w, prov) ==
  /\ app.w[w].pc = "fetching"
  /\ \E out \in {fetch_and_store(EmptyMap, app.w[w].time, app.w[w].key,
                                  app.w[w].period, prov)} :
       app' =
         [app EXCEPT !.w[w] =
            IF out.source = "provider"
            THEN [@ EXCEPT !.pc = "storing",
                           !.entry = out.cache[app.w[w].key]]
            ELSE [@ EXCEPT !.pc = "idle", !.result = "notfound"]]
  /\ UNCHANGED <<cache, now, lastCall, fetchLog, calc>>

\* line 119; lastStore remembers who wrote each key last, and what
Store(w) ==
  /\ app.w[w].pc = "storing"
  /\ cache' = cache_store(cache, app.w[w].key, app.w[w].entry)
  /\ Cardinality(DOMAIN cache') <= MaxCacheEntries
  /\ app' = [app EXCEPT
               !.w[w] = [@ EXCEPT !.pc = "idle", !.result = "provider"],
               !.lastStore = Put(@, app.w[w].key,
                                 [by |-> w, entry |-> app.w[w].entry])]
  /\ UNCHANGED <<now, lastCall, fetchLog, calc>>

NextRace ==
  \/ \E w \in Workers : \E r \in RaceRequests(w) : Lookup(w, r[1], r[2])
  \/ \E w \in Workers : \E prov \in SteadyProviders : Fetched(w, prov)
  \/ \E w \in Workers : Store(w)
  \/ \E d \in TickSteps : Tick(d)

SpecRace == InitRace /\ [][NextRace]_vars

----------------------------------------------------------------------------
(* SpecClear: the callers' requests and the button "clear cache and        *)
(* reload" of the charts tab                                               *)

ClearRequests == (Symbols \X {"6mo"}) \cup ({<<"BRK">>} \X {"5y"})

\* what chart_period_var holds
ChartPeriods == {"6mo"}

\* a provider that knows the symbol and raises or returns FrameA
ClearProviders == {p \in SteadyProviders : p.h1.frame # FrameB}

\* what chart_symbol_var holds: nothing, or a symbol
ChartSymbols == Symbols \cup {<<>>}

\* key.startswith(prefix)
startswith(key, prefix) ==
  Len(key) >= Len(prefix) /\ SubSeq(key, 1, Len(prefix)) = prefix

\* lines 688-691: the cache without the keys that start with "{symbol}_"
clear_symbol(c, symbol) ==
  [k \in {j \in DOMAIN c : ~startswith(j, symbol \o <<"_">>)} |-> c[k]]

NoClear ==
  [symbol |-> <<>>, period |-> "", before |-> EmptyMap, cleared |-> EmptyMap,
   source |-> "none", ticker |-> "unused"]

InitClear ==
  /\ cache = EmptyMap
  /\ now = StartTime
  /\ lastCall = NoCall
  /\ fetchLog = EmptyMap
  /\ calc = NoCalc
  /\ app = [phase |-> "chart", lastClear |-> NoClear]

\* lines 676-704: without a symbol a warning and nothing else; with one,
\* its keys are deleted and load_chart_WIDGET_FIXED calls get_stock_data
\* (line 455) for the symbol and the period of the chart. lastClear
\* remembers the cache before, the cache after the deletion, and where the
\* reload got its data.
ClearCacheAndReload(symbol, period, prov) ==
  IF symbol = <<>>
  THEN /\ app' = [app EXCEPT !.lastClear = [NoClear EXCEPT !.before = cache,
                                                          !.cleared = cache]]
       /\ UNCHANGED <<cache, now, lastCall, fetchLog, calc>>
  ELSE \E cleared \in {clear_symbol(cache, symbol)} :
       \E out \in {get_stock_data(cleared, now, symbol, period, prov)} :
         /\ Cardinality(DOMAIN out.cache) <= MaxCacheEntries
         /\ cache' = out.cache
         /\ lastCall' =
              [symbol |-> symbol, period |-> period, time |-> now,
               entryAge |-> EntryAge(cleared, now, symbol, period),
               kind |-> out.kind, frame |-> out.frame, alias |-> out.alias,
               source |-> out.source, ticker |-> out.ticker,
               info |-> out.info, hist |-> out.hist]
         /\ fetchLog' =
              IF out.source = "provider"
              THEN Put(fetchLog, <<symbol, period>>,
                       [at |-> now, resp |-> out.hist[Len(out.hist)].frame,
                        ret |-> out.frame])
              ELSE fetchLog
         /\ app' = [app EXCEPT !.lastClear =
                      [symbol |-> symbol, period |-> period,
                       before |-> cache, cleared |-> cleared,
                       source |-> out.source, ticker |-> out.ticker]]
         /\ UNCHANGED <<now, calc>>

ClearRequest(symbol, period) ==
  \E prov \in ClearProviders : GetStockData(symbol, period, prov)

NextClear ==
  \/ \E r \in ClearRequests : ClearRequest(r[1], r[2])
  \/ \E symbol \in ChartSymbols, period \in ChartPeriods :
       \E prov \in ClearProviders : ClearCacheAndReload(symbol, period, prov)

SpecClear == InitClear /\ [][NextClear]_vars

----------------------------------------------------------------------------
(* SpecWatchlist: WidgetFixedRSITracker.__init__ loads the watchlist       *)

MaxWatchlist == 4

WatchSymbols == {"AAPL", "TSLA", "BRK"}

DefaultWatchlist == <<"AAPL", "TSLA", "MSFT", "GOOGL", "NVDA">>

\* watchlist.json: not there, there but open() raises, there but not JSON,
\* or the JSON of a list of symbols
WatchlistFiles ==
  {[kind |-> k, content |-> <<>>] : k \in {"missing", "unreadable", "corrupt"}}
    \cup {[kind |-> "list", content |-> l] :
            l \in UNION {[1..n -> WatchSymbols] : n \in 0..MaxWatchlist}}

\* os.path.exists(self.watchlist_file)
path_exists(file) == file.kind # "missing"

\* open() or json.load() raises
load_raises(file) == file.kind \in {"unreadable", "corrupt"}

\* lines 912-918: the watchlist after load_watchlist
load_watchlist(watchlist, file) ==
  IF path_exists(file)
  THEN IF load_raises(file) THEN DefaultWatchlist ELSE file.content
  ELSE watchlist

\* lines 204-206: the watchlist is empty and the file is what it is
InitWatchlist ==
  /\ cache = EmptyMap
  /\ now = StartTime
  /\ lastCall = NoCall
  /\ fetchLog = EmptyMap
  /\ calc = NoCalc
  /\ app \in [phase : {"init"}, watchlist : {<<>>}, file : WatchlistFiles]

\* line 207
LoadWatchlist ==
  /\ app.phase = "init"
  /\ app' = [app EXCEPT !.watchlist = load_watchlist(app.watchlist, app.file),
                        !.phase = "loaded"]
  /\ UNCHANGED <<cache, now, lastCall, fetchLog, calc>>

NextWatchlist == LoadWatchlist

SpecWatchlist == InitWatchlist /\ [][NextWatchlist]_vars

----------------------------------------------------------------------------
(* SpecUpdate: start_updates, the update thread's update_loop, and         *)
(* on_closing.  The phases of the window are "init" (__init__ before line  *)
(* 218), "running", "closing" (on_closing has cleared is_updating and      *)
(* waits in join) and "destroyed" (root.destroy() is done).  pc is the     *)
(* position of the update thread in update_loop.                           *)

UpdateWatchlists ==
  {<<>>, <<"AAPL">>, <<"AAPL", "TSLA">>, <<"AAPL", "TSLA", "BRK">>}

Closed == app.phase \in {"closing", "destroyed"}

\* the flag test of the for loop is skipped
after_check_ignored(is_updating) == "update"

\* lines 901-902: if not self.is_updating: break
after_check(is_updating) == IF ~is_updating THEN "after_for" ELSE "update"

\* lines 209-212, after load_watchlist
InitUpdate ==
  /\ cache = EmptyMap
  /\ now = StartTime
  /\ lastCall = NoCall
  /\ fetchLog = EmptyMap
  /\ calc = NoCalc
  /\ app \in [phase : {"init"}, watchlist : UpdateWatchlists,
              is_updating : {FALSE}, started : {0}, pc : {"none"},
              snapshot : {<<>>}, i : {0}, callsAfterClose : {0},
              passesAfterClose : {0}]

\* line 218 and lines 891-895
StartUpdates ==
  /\ app.phase = "init"
  /\ app' = IF ~app.is_updating
            THEN [app EXCEPT !.phase = "running", !.is_updating = TRUE,
                             !.started = @ + 1, !.pc = "while"]
            ELSE [app EXCEPT !.phase = "running"]
  /\ UNCHANGED <<cache, now, lastCall, fetchLog, calc>>

\* line 898: while self.is_updating
WhileTest ==
  /\ app.pc = "while"
  /\ app' = IF app.is_updating
            THEN [app EXCEPT !.pc = "if_watchlist",
                             !.passesAfterClose =
                                IF Closed THEN @ + 1 ELSE @]
            ELSE [app EXCEPT !.pc = "exited"]
  /\ UNCHANGED <<cache, now, lastCall, fetchLog, calc>>

\* lines 899-900: if self.watchlist: for symbol in self.watchlist.copy()
IfWatchlist ==
  /\ app.pc = "if_watchlist"
  /\ app' = IF app.watchlist # <<>>
            THEN [app EXCEPT !.pc = "for", !.snapshot = app.watchlist,
                             !.i = 1]
            ELSE [app EXCEPT !.pc = "sleep_interval"]
  /\ UNCHANGED <<cache, now, lastCall, fetchLog, calc>>

\* line 900: the next symbol of the copy, or the end of the loop
ForNext ==
  /\ app.pc = "for"
  /\ app' = IF app.i <= Len(app.snapshot)
            THEN [app EXCEPT !.pc = "check"]
            ELSE [app EXCEPT !.pc = "after_for"]
  /\ UNCHANGED <<cache, now, lastCall, fetchLog, calc>>

\* lines 901-902
FlagCheck ==
  /\ app.pc = "check"
  /\ app' = [app EXCEPT !.pc = after_check(app.is_updating)]
  /\ UNCHANGED <<cache, now, lastCall, fetchLog, calc>>

\* line 903: update_stock_data(symbol) is called and returns; once the
\* window is destroyed its root.after calls (844-875) may raise out of it
UpdateStockData ==
  /\ app.pc = "update"
  /\ \E raised \in {r \in BOOLEAN : r => app.phase = "destroyed"} :
       app' = [app EXCEPT !.pc = IF raised THEN "exited" ELSE "sleep",
                          !.callsAfterClose = IF Closed THEN @ + 1 ELSE @]
  /\ UNCHANGED <<cache, now, lastCall, fetchLog, calc>>

\* line 904: time.sleep(2), then the next symbol
SleepTwo ==
  /\ app.pc = "sleep"
  /\ app' = [app EXCEPT !.pc = "for", !.i = @ + 1]
  /\ UNCHANGED <<cache, now, lastCall, fetchLog, calc>>

\* lines 906-908: the label of the last update; once the window is
\* destroyed winfo_exists may raise
AfterFor ==
  /\ app.pc = "after_for"
  /\ \E raised \in {r \in BOOLEAN : r => app.phase = "destroyed"} :
       app' = [app EXCEPT !.pc = IF raised THEN "exited"
                                 ELSE "sleep_interval"]
  /\ UNCHANGED <<cache, now, lastCall, fetchLog, calc>>

\* line 910: time.sleep(self.update_interval)
SleepInterval ==
  /\ app.pc = "sleep_interval"
  /\ app' = [app EXCEPT !.pc = "while"]
  /\ UNCHANGED <<cache, now, lastCall, fetchLog, calc>>

\* a step of the update thread
UpdateLoop ==
  \/ WhileTest
  \/ IfWatchlist
  \/ ForNext
  \/ FlagCheck
  \/ UpdateStockData
  \/ SleepTwo
  \/ AfterFor
  \/ SleepInterval

\* line 933: self.is_updating = False; the handler then waits in join
OnClosing ==
  /\ app.phase = "running"
  /\ app' = [app EXCEPT !.is_updating = FALSE, !.phase = "closing"]
  /\ UNCHANGED <<cache, now, lastCall, fetchLog, calc>>

\* lines 934-936: the join returns or times out, and root.destroy()
Destroy ==
  /\ app.phase = "closing"
  /\ app' = [app EXCEPT !.phase = "destroyed"]
  /\ UNCHANGED <<cache, now, lastCall, fetchLog, calc>>

NextUpdate ==
  \/ StartUpdates
  \/ UpdateLoop
  \/ OnClosing
  \/ Destroy

\* the update thread is scheduled: every fetch and every sleep returns
SpecUpdate == InitUpdate /\ [][NextUpdate]_vars /\ WF_vars(UpdateLoop)

----------------------------------------------------------------------------
(* SpecFilter: _filter_data_for_period applied, and applied again to its   *)
(* result, at one clock value                                              *)

FilterClocks == {StartTime, StartTime + cache_timeout \div 2}

\* bars before, on and after the 10y and 5y cutoffs of StartTime
FilterBars ==
  << Bar(Cutoff10At0 - SecondsPerDay, 5),
     Bar(Cutoff10At0, 6),
     Bar(Cutoff10At0 + 100, 7),
     Bar(Cutoff5At0, 8),
     Bar(Cutoff5At0 + 100, 9),
     Bar(StartTime - SecondsPerDay, 10) >>

\* the bars of FilterBars at the positions of keep, in order
Pick(keep) == SelectSeq(FilterBars, LAMBDA b : \E i \in keep : FilterBars[i] = b)

FilterInputs ==
  {[columns |-> {"Close", "Volume"}, rows |-> Pick(keep)] :
     keep \in SUBSET (1..Len(FilterBars))}

InitFilter ==
  /\ cache = EmptyMap
  /\ now \in FilterClocks
  /\ lastCall = NoCall
  /\ fetchLog = EmptyMap
  /\ app = NoApp
  /\ calc \in [op : {"filter"}, period : Periods, orig : FilterInputs,
               data : FilterInputs, prev : {EmptyFrame}, n : {0}]
  /\ calc.data = calc.orig

\* the series is filtered for the period; prev is the series before
FilterData ==
  /\ calc.n < 2
  /\ calc' = [calc EXCEPT
                !.data = filter_data_for_period(calc.data, calc.period,
                                                now).frame,
                !.prev = calc.data,
                !.n = calc.n + 1]
  /\ UNCHANGED <<cache, now, lastCall, fetchLog, app>>

NextFilter == FilterData

SpecFilter == InitFilter /\ [][NextFilter]_vars

----------------------------------------------------------------------------
(* Vocabulary of the properties *)

Last(seq) == seq[Len(seq)]

KeyOf(symbol, period) ==
  make_cache_key(symbol, get_actual_fetch_period(period), period)

\* the state is the one right after a get_stock_data call
IsCall == lastCall.kind # "nocall"

\* this step is a get_stock_data call
CallStep == lastCall' # lastCall

LastRequest == <<lastCall.symbol, lastCall.period>>
NextRequest == <<lastCall'.symbol, lastCall'.period>>

\* a call that asked nothing of the provider
NoProviderCall(call) ==
  call.ticker = "unused" /\ call.info = "unused" /\ call.hist = <<>>

\* the bars of a series: timestamp and close, in order
Bars(rows) == [i \in 1..Len(rows) |-> <<rows[i].ts, rows[i].close>>]

\* the bars of a provider response that have a close and a close above 0
ValidBars(frame) ==
  Bars(SelectSeq(frame.rows, LAMBDA r : (~r.nan) /\ r.close > 0))

HasBadBar(frame) ==
  \E i \in 1..Len(frame.rows) : frame.rows[i].nan \/ frame.rows[i].close <= 0

\* the bars that the period keeps at the clock value of a read
BarsOfPeriod(bars, period, clock) ==
  IF period = "5y"
  THEN SelectSeq(bars, LAMBDA b : b[1] >= clock - 1825 * 86400)
  ELSE IF period = "10y"
  THEN SelectSeq(bars, LAMBDA b : b[1] >= clock - 3650 * 86400)
  ELSE bars

----------------------------------------------------------------------------
(* C1 *)

\* C1, as stated: after a get_stock_data(symbol, period) that returned a
\* series, the next get_stock_data(symbol, period), made less than 300
\* seconds later, asks nothing of the provider and, for a period other than
\* 5y and 10y, returns the same bars as the first call.
C1_RoundTripAfterAnyCall ==
  [][(/\ CallStep
      /\ lastCall.kind = "series"
      /\ NextRequest = LastRequest
      /\ lastCall'.time - lastCall.time < 300)
     => (/\ NoProviderCall(lastCall')
         /\ lastCall'.kind = "series"
         /\ lastCall.period \notin {"5y", "10y"}
              => Bars(lastCall'.frame.rows) = Bars(lastCall.frame.rows))]_vars

\* C1, amended: after a get_stock_data(symbol, period) that fetched a series
\* from the provider, every get_stock_data(symbol, period) made less than 300
\* seconds after that fetch asks nothing of the provider, returns a series
\* and, for a period other than 5y and 10y, returns the same bars as the
\* fetching call.
C1_RoundTripAfterFetch ==
  [][(/\ CallStep
      /\ NextRequest \in DOMAIN fetchLog
      /\ lastCall'.time - fetchLog[NextRequest].at < 300)
     => (/\ NoProviderCall(lastCall')
         /\ lastCall'.kind = "series"
         /\ lastCall'.period \notin {"5y", "10y"}
              => Bars(lastCall'.frame.rows)
                   = Bars(fetchLog[NextRequest].ret.rows))]_vars

\* a 6mo request answered from the cache some time after its fetch
C1_Witness ==
  /\ lastCall.period = "6mo"
  /\ lastCall.source = "cache"
  /\ LastRequest \in DOMAIN fetchLog
  /\ lastCall.time > fetchLog[LastRequest].at
  /\ Len(lastCall.frame.rows) > 0

----------------------------------------------------------------------------
(* C2 *)

\* C2: an entry is stale exactly when now - fetchedAt >= 300: a call that
\* finds an entry of its key of age >= 300 does not answer from the cache and
\* asks the provider; a call that finds an entry of age < 300 answers from
\* the cache.
C2_StaleAtTimeout ==
  (IsCall /\ lastCall.entryAge # NoEntry)
  => IF lastCall.entryAge >= 300
     THEN lastCall.source # "cache" /\ lastCall.ticker # "unused"
     ELSE lastCall.source = "cache" /\ NoProviderCall(lastCall)

\* a call that found an entry of age exactly 300
C2_Witness ==
  /\ IsCall
  /\ lastCall.entryAge = 300
  /\ lastCall.source = "provider"

----------------------------------------------------------------------------
(* C3 *)

\* C3: a 5y, 10y or max request that returns a series returns data that a
\* request for the same symbol and the same period fetched (so the first
\* request of each period asks the provider), truncated with the cutoff of
\* its own period at the time of the call.
C3_LongPeriodsIndependent ==
  (IsCall /\ lastCall.period \in {"5y", "10y", "max"}
          /\ lastCall.kind = "series")
  => /\ LastRequest \in DOMAIN fetchLog
     /\ Bars(lastCall.frame.rows)
          = BarsOfPeriod(ValidBars(fetchLog[LastRequest].resp),
                         lastCall.period, lastCall.time)

\* a 10y request that asked the provider although the 5y entry of the
\* symbol was fresh
C3_Witness ==
  /\ lastCall.period = "10y"
  /\ lastCall.source = "provider"
  /\ <<lastCall.symbol, "5y">> \in DOMAIN fetchLog
  /\ lastCall.time - fetchLog[<<lastCall.symbol, "5y">>].at < 300
  /\ KeyOf(lastCall.symbol, "5y") \in DOMAIN cache

----------------------------------------------------------------------------
(* C4 *)

\* C4: a call whose metadata lookup returned a dictionary that is empty or
\* has neither regularMarketPrice nor currentPrice returns None and makes no
\* history call.
C4_NoPriceShortCircuit ==
  (/\ IsCall
   /\ lastCall.info \notin {"unused", "raise"}
   /\ InfoDict(lastCall.info) \cap {"regularMarketPrice", "currentPrice"} = {})
  => lastCall.kind = "none" /\ lastCall.hist = <<>>

\* a call whose metadata had a name and no price
C4_Witness ==
  /\ lastCall.info = "noprice"
  /\ lastCall.kind = "none"
  /\ lastCall.hist = <<>>

----------------------------------------------------------------------------
(* C5 *)

\* C5: every call ends with a series or with None, also when the ticker
\* construction, the metadata lookup or a history call raised.
C5_UniformResult ==
  IsCall => lastCall.kind \in {"series", "none"}

\* a call whose metadata lookup and whose history call both raised
C5_Witness ==
  /\ lastCall.info = "raise"
  /\ lastCall.hist # <<>>
  /\ Last(lastCall.hist).raised
  /\ lastCall.kind = "none"

----------------------------------------------------------------------------
(* C6 *)

\* C6: a call whose bar response is empty, or has no bar with a close above
\* 0, returns None and leaves the cache as it was (no entry is created).
C6_EmptyIsNotFound ==
  [][(/\ CallStep
      /\ lastCall'.hist # <<>>
      /\ ~Last(lastCall'.hist).raised
      /\ ValidBars(Last(lastCall'.hist).frame) = <<>>)
     => (lastCall'.kind = "none" /\ cache' = cache)]_vars

\* a call whose response had bars, none of them with a close above 0
C6_Witness ==
  /\ lastCall.hist # <<>>
  /\ ~Last(lastCall.hist).raised
  /\ Len(Last(lastCall.hist).frame.rows) > 0
  /\ ValidBars(Last(lastCall.hist).frame) = <<>>
  /\ lastCall.kind = "none"
  /\ KeyOf(lastCall.symbol, lastCall.period) \notin DOMAIN cache

----------------------------------------------------------------------------
(* C7 *)

AllClosesPositive(frame) ==
  \A i \in 1..Len(frame.rows) :
    (~frame.rows[i].nan) /\ frame.rows[i].close > 0

\* C7: every bar of every cached series and every bar of a returned series
\* has a close, and the close is above 0.
C7_PositiveClose ==
  /\ \A k \in DOMAIN cache : AllClosesPositive(cache[k].data)
  /\ lastCall.kind = "series" => AllClosesPositive(lastCall.frame)

\* a series fetched from a response that had bars without a usable close
C7_Witness ==
  /\ lastCall.source = "provider"
  /\ HasBadBar(Last(lastCall.hist).frame)
  /\ Len(lastCall.frame.rows) > 0
  /\ KeyOf(lastCall.symbol, lastCall.period) \in DOMAIN cache

----------------------------------------------------------------------------
(* C8 *)

\* C8: every cache entry holds all the valid bars of the response it was
\* fetched from, whatever the period; a 5y or 10y request answered from the
\* cache returns the bars of the entry that the cutoff of the time of the
\* read keeps.
C8_RawDataCached ==
  /\ \A r \in DOMAIN fetchLog :
       /\ KeyOf(r[1], r[2]) \in DOMAIN cache
       /\ Bars(cache[KeyOf(r[1], r[2])].data.rows)
            = ValidBars(fetchLog[r].resp)
  /\ (lastCall.source = "cache" /\ lastCall.period \in {"5y", "10y"})
     => Bars(lastCall.frame.rows)
          = BarsOfPeriod(
              Bars(cache[KeyOf(lastCall.symbol, lastCall.period)].data.rows),
              lastCall.period, lastCall.time)

\* a 5y request answered from the cache with fewer bars than its fetch
\* returned, from an entry that still has a bar older than both cutoffs
C8_Witness ==
  /\ lastCall.period = "5y"
  /\ lastCall.source = "cache"
  /\ LastRequest \in DOMAIN fetchLog
  /\ Len(lastCall.frame.rows) < Len(fetchLog[LastRequest].ret.rows)
  /\ Len(fetchLog[LastRequest].ret.rows)
       < Len(cache[KeyOf(lastCall.symbol, "5y")].data.rows)

----------------------------------------------------------------------------
(* C9 *)

\* C9: the series object that a call returns is never the instance that the
\* cache holds.
C9_CopyOnRead ==
  lastCall.kind = "series" => ~lastCall.alias

----------------------------------------------------------------------------
(* C10 *)

Stale(entry, clock) == clock - entry.timestamp >= 300

\* the step is a lookup of key k that finds its entry stale
StaleLookup(k) ==
  /\ CallStep
  /\ KeyOf(lastCall'.symbol, lastCall'.period) = k
  /\ Stale(cache[k], now)

\* the entry of key k after the step is the one the step fetched
Refetched(k) ==
  /\ k \in DOMAIN cache'
  /\ cache'[k].timestamp = now
  /\ lastCall'.hist # <<>>
  /\ Bars(cache'[k].data.rows) = ValidBars(Last(lastCall'.hist).frame)

Kept(k) == k \in DOMAIN cache' /\ cache'[k] = cache[k]

\* C10, as stated: an entry stays as it is while time passes and other keys
\* are looked up; a lookup of its key that finds it stale is a miss and
\* overwrites it with the series and the time of its fetch.
C10_StaleAlwaysOverwritten ==
  [][\A k \in DOMAIN cache :
       IF StaleLookup(k)
       THEN lastCall'.source # "cache" /\ Refetched(k)
       ELSE Kept(k)]_vars

\* C10, amended: an entry stays as it is while time passes and other keys
\* are looked up; a lookup of its key that finds it stale is a miss, and it
\* overwrites the entry with the series and the time of its fetch when the
\* fetch gives a series, and leaves the entry as it is when the lookup
\* returns None.
C10_StaleOverwrittenOnSuccess ==
  [][\A k \in DOMAIN cache :
       IF StaleLookup(k)
       THEN /\ lastCall'.source # "cache"
            /\ IF lastCall'.kind = "series" THEN Refetched(k) ELSE Kept(k)
       ELSE Kept(k)]_vars

\* a stale entry has just been overwritten while another entry, stale too,
\* is still in the cache
C10_Witness ==
  /\ IsCall
  /\ lastCall.entryAge >= 300
  /\ lastCall.kind = "series"
  /\ cache[KeyOf(lastCall.symbol, lastCall.period)].timestamp = lastCall.time
  /\ \E k \in DOMAIN cache :
       /\ k # KeyOf(lastCall.symbol, lastCall.period)
       /\ Stale(cache[k], now)

----------------------------------------------------------------------------
(* C11 *)

\* C11: a call whose metadata lookup raised makes the bar fetch all the same,
\* and its result is decided by the bar response alone: the valid bars of the
\* response, cut to the period, when there are any, and None otherwise.
C11_MetadataFailureNonFatal ==
  (IsCall /\ lastCall.info = "raise")
  => /\ lastCall.hist # <<>>
     /\ IF (~Last(lastCall.hist).raised)
             /\ ValidBars(Last(lastCall.hist).frame) # <<>>
        THEN /\ lastCall.kind = "series"
             /\ Bars(lastCall.frame.rows)
                  = BarsOfPeriod(ValidBars(Last(lastCall.hist).frame),
                                 lastCall.period, lastCall.time)
        ELSE lastCall.kind = "none"

\* a call that returned a series although its metadata lookup raised
C11_Witness ==
  /\ lastCall.info = "raise"
  /\ lastCall.kind = "series"
  /\ Len(lastCall.frame.rows) > 0

----------------------------------------------------------------------------
(* C12 *)

\* C12: the first bar fetch of a 1d request is at 5-minute interval and that
\* of a 5d request at 1-hour interval; a second fetch, at default interval,
\* is made exactly when the period is 1d or 5d and the first response is
\* empty; no call makes more than two bar fetches, and a call for another
\* period makes at most one.
C12_SingleFallback ==
  (IsCall /\ lastCall.hist # <<>>)
  => /\ Len(lastCall.hist) <= 2
     /\ lastCall.period = "1d" => lastCall.hist[1].interval = "5m"
     /\ lastCall.period = "5d" => lastCall.hist[1].interval = "1h"
     /\ lastCall.period \notin {"1d", "5d"} => Len(lastCall.hist) = 1
     /\ lastCall.period \in {"1d", "5d"}
          => (Len(lastCall.hist) = 2
                <=> ((~lastCall.hist[1].raised)
                       /\ Len(lastCall.hist[1].frame.rows) = 0))
     /\ Len(lastCall.hist) = 2
          => /\ lastCall.hist[2].interval = "default"
             /\ lastCall.hist[2].period = lastCall.period

\* a 5d request whose hourly fetch came back empty and whose second fetch
\* gave the series
C12_Witness ==
  /\ lastCall.period = "5d"
  /\ Len(lastCall.hist) = 2
  /\ lastCall.hist[1].interval = "1h"
  /\ lastCall.kind = "series"

----------------------------------------------------------------------------
(* C13 *)

Normalized(period) == IF period \in {"5y", "10y", "max"} THEN "max" ELSE period

\* C13: the fetch period of 5y, 10y and max is max and that of every other
\* period is the period itself; every bar fetch of a call asks the provider
\* for the fetch period of the request.
C13_FetchPeriodNormalized ==
  /\ \A p \in Periods : get_actual_fetch_period(p) = Normalized(p)
  /\ IsCall => \A i \in 1..Len(lastCall.hist) :
                 lastCall.hist[i].period = Normalized(lastCall.period)

\* a 10y request that asked the provider for max
C13_Witness ==
  /\ lastCall.period = "10y"
  /\ lastCall.hist # <<>>
  /\ lastCall.hist[1].period = "max"
  /\ lastCall.kind = "series"

----------------------------------------------------------------------------
(* RSICalculator.calculate_rsi                                             *)
(*                                                                         *)
(* A float is a record [k, n, d]: k = "num" is the fraction n/d in lowest  *)
(* terms with d > 0, k = "inf" is the infinity of sign n, k = "nan" is     *)
(* not-a-number.  A Series is a sequence of floats.                        *)

MaxLen == 5
MaxPrice == 4
default_period == 14

Abs(x) == IF x < 0 THEN 0 - x ELSE x

Sign(x) == IF x < 0 THEN 0 - 1 ELSE IF x > 0 THEN 1 ELSE 0

RECURSIVE GCD(_, _)
GCD(a, b) == IF b = 0 THEN a ELSE GCD(b, a % b)

Num(n, d) ==
  LET g == GCD(Abs(n), d)
  IN  [k |-> "num", n |-> n \div g, d |-> d \div g]

NaN == [k |-> "nan", n |-> 0, d |-> 1]

Inf(sign) == [k |-> "inf", n |-> sign, d |-> 1]

negate(x) == [x EXCEPT !.n = 0 - x.n]

add(a, b) ==
  IF a.k = "nan" \/ b.k = "nan" THEN NaN
  ELSE IF a.k = "inf" /\ b.k = "inf"
       THEN (IF a.n = b.n THEN a ELSE NaN)
  ELSE IF a.k = "inf" THEN a
  ELSE IF b.k = "inf" THEN b
  ELSE Num(a.n * b.d + b.n * a.d, a.d * b.d)

subtract(a, b) == add(a, negate(b))

\* a finite value divided by zero is not-a-number
divide_zero_nan(a, b) ==
  IF a.k = "nan" \/ b.k = "nan" THEN NaN
  ELSE IF a.k = "inf" /\ b.k = "inf" THEN NaN
  ELSE IF a.k = "inf" THEN Inf(IF b.n < 0 THEN 0 - a.n ELSE a.n)
  ELSE IF b.k = "inf" THEN Num(0, 1)
  ELSE IF b.n = 0 THEN NaN
  ELSE Num(Sign(b.n) * a.n * b.d, Abs(b.n) * a.d)

\* float division: x/0 is an infinity, 0/0 is not-a-number
divide(a, b) ==
  IF a.k = "nan" \/ b.k = "nan" THEN NaN
  ELSE IF a.k = "inf" /\ b.k = "inf" THEN NaN
  ELSE IF a.k = "inf" THEN Inf(IF b.n < 0 THEN 0 - a.n ELSE a.n)
  ELSE IF b.k = "inf" THEN Num(0, 1)
  ELSE IF b.n = 0 THEN (IF a.n = 0 THEN NaN ELSE Inf(Sign(a.n)))
  ELSE Num(Sign(b.n) * a.n * b.d, Abs(b.n) * a.d)

\* Series.diff(): the first element has no predecessor
diff(prices) ==
  [i \in 1..Len(prices) |->
     IF i = 1 THEN NaN ELSE Num(prices[i] - prices[i - 1], 1)]

\* comparisons with not-a-number are false
gt0(x) == x.k # "nan" /\ x.n > 0

lt0(x) == x.k # "nan" /\ x.n < 0

deltas(prices) == diff(prices)

\* every move counts as a gain
gains_abs(prices) ==
  [i \in 1..Len(prices) |->
     IF deltas(prices)[i].k = "nan" THEN Num(0, 1)
     ELSE Num(Abs(deltas(prices)[i].n), deltas(prices)[i].d)]

\* deltas.where(deltas > 0, 0): 0 wherever the comparison is false
gains(prices) ==
  [i \in 1..Len(prices) |->
     IF gt0(deltas(prices)[i]) THEN deltas(prices)[i] ELSE Num(0, 1)]

\* -deltas.where(deltas < 0, 0)
losses(prices) ==
  [i \in 1..Len(prices) |->
     negate(IF lt0(deltas(prices)[i]) THEN deltas(prices)[i] ELSE Num(0, 1))]

RECURSIVE SumFrom(_, _, _)
SumFrom(series, lo, hi) ==
  IF lo > hi THEN Num(0, 1)
  ELSE add(series[lo], SumFrom(series, lo + 1, hi))

\* Series.rolling(window).mean(): undefined until window observations
rolling_mean(series, window) ==
  [i \in 1..Len(series) |->
     IF i < window THEN NaN
     ELSE divide(SumFrom(series, i - window + 1, i), Num(window, 1))]

avg_gains(prices, period) == rolling_mean(gains(prices), period)

avg_losses(prices, period) == rolling_mean(losses(prices), period)

rs(prices, period) ==
  [i \in 1..Len(prices) |->
     divide(avg_gains(prices, period)[i], avg_losses(prices, period)[i])]

rsi(prices, period) ==
  [i \in 1..Len(prices) |->
     subtract(Num(100, 1),
              divide(Num(100, 1), add(Num(1, 1), rs(prices, period)[i])))]

\* not-a-number is left in the series
fillna_skipped(series, value) == series

fillna(series, value) ==
  [i \in 1..Len(series) |->
     IF series[i].k = "nan" THEN value ELSE series[i]]

\* a series of exactly period prices is computed
is_short_strict(n, period) == n < period

is_short(n, period) == n < period + 1

calculate_rsi(prices, period) ==
  IF is_short(Len(prices), period)
  THEN [i \in 1..Len(prices) |-> Num(50, 1)]
  ELSE fillna(rsi(prices, period), Num(50, 1))

----------------------------------------------------------------------------
(* SpecRSI: calculate_rsi applied to a price series                        *)

RSIPeriods == {1, 2, 3, default_period}

PriceSeries == UNION {[1..n -> 1..MaxPrice] : n \in 0..MaxLen}

InitRSI ==
  /\ cache = EmptyMap
  /\ now = StartTime
  /\ lastCall = NoCall
  /\ fetchLog = EmptyMap
  /\ app = NoApp
  /\ calc \in [op : {"rsi"}, prices : PriceSeries, period : RSIPeriods,
               done : {FALSE}, rsi : {<<>>}]

CalculateRSI ==
  /\ calc.done = FALSE
  /\ calc' = [calc EXCEPT !.rsi = calculate_rsi(calc.prices, calc.period),
                          !.done = TRUE]
  /\ UNCHANGED <<cache, now, lastCall, fetchLog, app>>

NextRSI == CalculateRSI

SpecRSI == InitRSI /\ [][NextRSI]_vars

----------------------------------------------------------------------------
(* FixedStockData.format_market_cap, format_volume                         *)
(*                                                                         *)
(* A non-negative integer is the sequence of its groups of three decimal   *)
(* digits, most significant first, without leading zero groups:            *)
(* 2_500_000_000_000 is <<2, 500, 0, 0, 0>>.  A string is the sequence of  *)
(* its characters.                                                         *)

MaxGroups == 5

GroupValues == {0, 1, 2, 500, 999}

Amounts ==
  {v \in UNION {[1..n -> GroupValues] : n \in 1..MaxGroups} :
     Len(v) > 1 => v[1] # 0}

\* 1_000 ** e
Thousands(e) == <<1>> \o [i \in 1..e |-> 0]

\* a > b: the threshold itself is not reached
GreaterStrict(a, b) ==
  \/ Len(a) > Len(b)
  \/ /\ Len(a) = Len(b)
     /\ \E i \in 1..Len(a) :
          /\ a[i] > b[i]
          /\ \A j \in 1..(i - 1) : a[j] = b[j]

\* a >= b
GreaterEq(a, b) ==
  \/ Len(a) > Len(b)
  \/ /\ Len(a) = Len(b)
     /\ \/ a = b
        \/ \E i \in 1..Len(a) :
             /\ a[i] > b[i]
             /\ \A j \in 1..(i - 1) : a[j] = b[j]

DigitChars == <<"0", "1", "2", "3", "4", "5", "6", "7", "8", "9">>

RECURSIVE Pad(_, _)
\* n in exactly width digits
Pad(n, width) ==
  IF width = 0 THEN <<>>
  ELSE Pad(n \div 10, width - 1) \o <<DigitChars[(n % 10) + 1]>>

\* n < 1000 without leading zeros
Plain(n) == IF n < 10 THEN Pad(n, 1) ELSE IF n < 100 THEN Pad(n, 2) ELSE Pad(n, 3)

RECURSIVE Join(_, _)
\* the digits of the groups, sep between two groups
Join(groups, sep) ==
  IF Len(groups) = 1 THEN Plain(groups[1])
  ELSE Join(SubSeq(groups, 1, Len(groups) - 1), sep)
       \o sep \o Pad(groups[Len(groups)], 3)

RECURSIVE Inc(_)
\* groups + 1
Inc(groups) ==
  IF groups = <<>> THEN <<1>>
  ELSE IF groups[Len(groups)] < 999
  THEN [groups EXCEPT ![Len(groups)] = @ + 1]
  ELSE Inc(SubSeq(groups, 1, Len(groups) - 1)) \o <<0>>

Pow10(e) == IF e = 0 THEN 1 ELSE IF e = 1 THEN 10 ELSE IF e = 2 THEN 100 ELSE 1000

\* f"{amount / 1_000 ** e:.{decimals}f}" for amount >= 1_000 ** e, e >= 1
\* and decimals in 1..2: the quotient rounded to the nearest.  A tie is
\* decided on the binary value of the quotient; no amount built from
\* GroupValues is one.
fixed(amount, e, decimals) ==
  LET whole == SubSeq(amount, 1, Len(amount) - e)
      group == amount[Len(amount) - e + 1]
      lower == SubSeq(amount, Len(amount) - e + 2, Len(amount))
      unit  == Pow10(3 - decimals)
      q     == group \div unit
      r     == group % unit
      more  == \E i \in 1..Len(lower) : lower[i] # 0
      up    == \/ 2 * r > unit
               \/ 2 * r = unit /\ more
      frac  == IF up THEN q + 1 ELSE q
  IN  IF frac = Pow10(decimals)
      THEN Join(Inc(whole), <<>>) \o <<".">> \o Pad(0, decimals)
      ELSE Join(whole, <<>>) \o <<".">> \o Pad(frac, decimals)

\* f"{amount:,}" and f"{amount:,.0f}"
grouped(amount) == Join(amount, <<",">>)

format_market_cap(market_cap) ==
  IF GreaterEq(market_cap, Thousands(4))
  THEN <<"$">> \o fixed(market_cap, 4, 2) \o <<"T">>
  ELSE IF GreaterEq(market_cap, Thousands(3))
  THEN <<"$">> \o fixed(market_cap, 3, 2) \o <<"B">>
  ELSE IF GreaterEq(market_cap, Thousands(2))
  THEN <<"$">> \o fixed(market_cap, 2, 1) \o <<"M">>
  ELSE <<"$">> \o grouped(market_cap)

format_volume(volume) ==
  IF GreaterEq(volume, Thousands(3))
  THEN fixed(volume, 3, 2) \o <<"B">>
  ELSE IF GreaterEq(volume, Thousands(2))
  THEN fixed(volume, 2, 1) \o <<"M">>
  ELSE IF GreaterEq(volume, Thousands(1))
  THEN fixed(volume, 1, 1) \o <<"K">>
  ELSE grouped(volume)

----------------------------------------------------------------------------
(* SpecFormat: one amount formatted by one of the two formatters           *)

InitFormat ==
  /\ cache = EmptyMap
  /\ now = StartTime
  /\ lastCall = NoCall
  /\ fetchLog = EmptyMap
  /\ app = NoApp
  /\ calc \in [op : {"format"}, amount : Amounts, by : {"none"}, out : {<<>>}]

FormatMarketCap ==
  /\ calc.by = "none"
  /\ calc' = [calc EXCEPT !.by = "format_market_cap",
                          !.out = format_market_cap(calc.amount)]
  /\ UNCHANGED <<cache, now, lastCall, fetchLog, app>>

FormatVolume ==
  /\ calc.by = "none"
  /\ calc' = [calc EXCEPT !.by = "format_volume",
                          !.out = format_volume(calc.amount)]
  /\ UNCHANGED <<cache, now, lastCall, fetchLog, app>>

NextFormat == FormatMarketCap \/ FormatVolume

SpecFormat == InitFormat /\ [][NextFormat]_vars

----------------------------------------------------------------------------
(* C14 *)

\* C14: the series filtered for 5y has exactly the bars with timestamp >=
\* now - 1825 days, the one filtered for 10y those with timestamp >= now -
\* 3650 days, and for every other period it is the series itself; filtering
\* the filtered series again, for the same period at the same clock value,
\* gives the same series.
C14_FilterIdempotent ==
  (calc.op = "filter" /\ calc.n >= 1)
  => /\ calc.data.rows =
          (IF calc.period = "5y"
           THEN SelectSeq(calc.orig.rows,
                          LAMBDA r : r.ts >= now - 1825 * 86400)
           ELSE IF calc.period = "10y"
           THEN SelectSeq(calc.orig.rows,
                          LAMBDA r : r.ts >= now - 3650 * 86400)
           ELSE calc.orig.rows)
     /\ calc.n = 2 => calc.data = calc.prev

\* a series filtered twice for 5y that lost a bar the first time and kept
\* the bar that is exactly 1825 days old
C14_Witness ==
  /\ calc.op = "filter"
  /\ calc.n = 2
  /\ calc.period = "5y"
  /\ Len(calc.data.rows) < Len(calc.orig.rows)
  /\ \E i \in 1..Len(calc.data.rows) :
       calc.data.rows[i].ts = now - 1825 * 86400

----------------------------------------------------------------------------
(* C15 .. C19 *)

RSIDone == calc.op = "rsi" /\ calc.done

Fifty == [k |-> "num", n |-> 50, d |-> 1]

Hundred == [k |-> "num", n |-> 100, d |-> 1]

Zero == [k |-> "num", n |-> 0, d |-> 1]

LongEnough == Len(calc.prices) >= calc.period + 1

StrictlyIncreasing(prices) ==
  \A i \in 2..Len(prices) : prices[i - 1] < prices[i]

StrictlyDecreasing(prices) ==
  \A i \in 2..Len(prices) : prices[i - 1] > prices[i]

\* the average gain and loss at the 1-based position i
AvgGain(i) == avg_gains(calc.prices, calc.period)[i]

AvgLoss(i) == avg_losses(calc.prices, calc.period)[i]

\* C15: for a price sequence of length < period + 1, the empty one too,
\* calculate_rsi returns a sequence of the same length whose every value is
\* exactly 50.0.
C15_ShortInputNeutral ==
  (RSIDone /\ Len(calc.prices) < calc.period + 1)
  => /\ Len(calc.rsi) = Len(calc.prices)
     /\ \A i \in 1..Len(calc.rsi) : calc.rsi[i] = Fifty

\* a series of exactly period prices, not all equal, came back as 50.0s
C15_Witness ==
  /\ RSIDone
  /\ calc.period > 1
  /\ Len(calc.prices) = calc.period
  /\ calc.prices[1] # calc.prices[2]
  /\ calc.rsi = [i \in 1..calc.period |-> Fifty]

\* C16: calculate_rsi returns a sequence as long as its input whose every
\* value is defined and lies in [0, 100], also where the average loss is 0,
\* where the average gain is 0 and where both are 0.
C16_Range ==
  RSIDone
  => /\ Len(calc.rsi) = Len(calc.prices)
     /\ \A i \in 1..Len(calc.rsi) :
          /\ calc.rsi[i].k = "num"
          /\ 0 <= calc.rsi[i].n
          /\ calc.rsi[i].n <= 100 * calc.rsi[i].d

\* one series with a position of zero average loss only, one of zero
\* average gain only, one where both are zero and one where neither is
C16_Witness ==
  /\ RSIDone
  /\ LongEnough
  /\ \E i \in calc.period..Len(calc.prices) :
       AvgLoss(i).n = 0 /\ AvgGain(i).n > 0
  /\ \E i \in calc.period..Len(calc.prices) :
       AvgGain(i).n = 0 /\ AvgLoss(i).n > 0
  /\ \E i \in calc.period..Len(calc.prices) :
       AvgGain(i).n = 0 /\ AvgLoss(i).n = 0
  /\ \E i \in calc.period..Len(calc.prices) :
       /\ AvgGain(i).n > 0 /\ AvgLoss(i).n > 0
       /\ calc.rsi[i] \notin {Zero, Fifty, Hundred}

\* C17: for a price sequence of length >= period + 1 the first period
\* values of calculate_rsi are exactly 50.0, whatever the prices.
C17_LeadingWindowNeutral ==
  (RSIDone /\ LongEnough)
  => \A i \in 1..calc.period : calc.rsi[i] = Fifty

\* C18: for a strictly increasing price sequence of length >= period + 1
\* every value past the first period ones is exactly 100; any position with
\* zero average loss and positive average gain is 100, and any position
\* where both averages are zero is 50.0.
C18_SaturatesAt100 ==
  (RSIDone /\ LongEnough)
  => /\ StrictlyIncreasing(calc.prices)
        => \A i \in (calc.period + 1)..Len(calc.prices) :
             calc.rsi[i] = Hundred
     /\ \A i \in calc.period..Len(calc.prices) :
          /\ (AvgLoss(i).n = 0 /\ AvgGain(i).n > 0) => calc.rsi[i] = Hundred
          /\ (AvgLoss(i).n = 0 /\ AvgGain(i).n = 0) => calc.rsi[i] = Fifty

\* a strictly increasing series of four prices or more, period 3, ends at 100
C18_Witness ==
  /\ RSIDone
  /\ LongEnough
  /\ calc.period = 3
  /\ StrictlyIncreasing(calc.prices)
  /\ calc.rsi[Len(calc.prices)] = Hundred

\* C19: for a strictly decreasing price sequence of length >= period + 1
\* every value past the first period ones is exactly 0.
C19_BottomsAt0 ==
  (RSIDone /\ LongEnough /\ StrictlyDecreasing(calc.prices))
  => \A i \in (calc.period + 1)..Len(calc.prices) :
       /\ calc.rsi[i] = Zero
       /\ AvgGain(i).n = 0
       /\ AvgLoss(i).n > 0

\* a strictly decreasing series of four prices, period 3, ends at 0
C19_Witness ==
  /\ RSIDone
  /\ LongEnough
  /\ calc.period = 3
  /\ StrictlyDecreasing(calc.prices)
  /\ calc.rsi[Len(calc.prices)] = Zero

----------------------------------------------------------------------------
(* C20 *)

\* the last character of the formatted amount
SuffixOf(out) == out[Len(out)]

\* the amount reaches 1_000 ** e
Reaches(e) == Len(calc.amount) > e

\* C20: format_market_cap and format_volume choose the suffix of the
\* largest threshold the amount reaches, boundaries included: market cap T
\* from 10^12, B from 10^9, M from 10^6, below that '$' and the
\* comma-grouped integer; volume B from 10^9, M from 10^6, K from 10^3,
\* below that the comma-grouped integer; format_market_cap(2_500_000_000_000)
\* is "$2.50T" and format_volume(1_500) is "1.5K".
C20_SuffixSelection ==
  /\ (calc.op = "format" /\ calc.by = "format_market_cap")
     => /\ calc.out[1] = "$"
        /\ IF Reaches(4) THEN SuffixOf(calc.out) = "T"
           ELSE IF Reaches(3) THEN SuffixOf(calc.out) = "B"
           ELSE IF Reaches(2) THEN SuffixOf(calc.out) = "M"
           ELSE calc.out = <<"$">> \o Join(calc.amount, <<",">>)
        /\ calc.amount = <<2, 500, 0, 0, 0>>
           => calc.out = <<"$", "2", ".", "5", "0", "T">>
  /\ (calc.op = "format" /\ calc.by = "format_volume")
     => /\ IF Reaches(3) THEN SuffixOf(calc.out) = "B"
           ELSE IF Reaches(2) THEN SuffixOf(calc.out) = "M"
           ELSE IF Reaches(1) THEN SuffixOf(calc.out) = "K"
           ELSE calc.out = Join(calc.amount, <<",">>)
        /\ calc.amount = <<1, 500>>
           => calc.out = <<"1", ".", "5", "K">>

\* a market cap of exactly 10^12 came out as "$1.00T"
C20_Witness ==
  /\ calc.op = "format"
  /\ calc.by = "format_market_cap"
  /\ calc.amount = <<1, 0, 0, 0, 0>>
  /\ calc.out = <<"$", "1", ".", "0", "0", "T">>

----------------------------------------------------------------------------
(* C23 *)

\* the entries of the cache other than k are the same before and after
OthersKept(k) ==
  /\ DOMAIN cache' \ {k} = DOMAIN cache \ {k}
  /\ \A j \in DOMAIN cache \ {k} : cache'[j] = cache[j]

\* C23: a get_stock_data call changes the cache only when it completes a
\* fetch whose cleaned series is not empty, and then it writes the entry of
\* its own key and no other; a cache hit and every call that returns None
\* (metadata without price, no bars or no bar left after cleaning, an
\* exception of the provider) leave every entry as it was, a stale entry of
\* the requested key too.
C23_CacheFrame ==
  [][IF CallStep /\ lastCall'.source = "provider"
     THEN /\ lastCall'.kind = "series"
          /\ ValidBars(Last(lastCall'.hist).frame) # <<>>
          /\ KeyOf(lastCall'.symbol, lastCall'.period) \in DOMAIN cache'
          /\ OthersKept(KeyOf(lastCall'.symbol, lastCall'.period))
     ELSE cache' = cache]_vars

\* a call found a stale entry for its key, the metadata had no price, and
\* the entry is still there with the time of its fetch
C23_Witness ==
  /\ IsCall
  /\ lastCall.entryAge >= 300
  /\ lastCall.kind = "none"
  /\ lastCall.info \in {"empty", "noprice"}
  /\ KeyOf(lastCall.symbol, lastCall.period) \in DOMAIN cache
  /\ cache[KeyOf(lastCall.symbol, lastCall.period)].timestamp
       = lastCall.time - lastCall.entryAge
  /\ Cardinality(DOMAIN cache) = 2

----------------------------------------------------------------------------
(* C24 *)

\* C24: the key "{symbol}_{fetchPeriod}_{period}" of a symbol, which may
\* contain '_', and a period of the enum is the key of no other pair of a
\* symbol and a period of the enum.
C24_KeyInjective ==
  (calc.op = "key" /\ calc.done)
  => \A s2 \in KeySymbols, p2 \in Periods :
       cache_key_string(s2, p2) = calc.key
       => s2 = calc.symbol /\ p2 = calc.period

\* the key of the symbol "d_1" and the period 1d
C24_Witness ==
  /\ calc.op = "key"
  /\ calc.done
  /\ calc.symbol = <<"d", "_", "1">>
  /\ calc.period = "1d"
  /\ calc.key = <<"d", "_", "1", "_", "1", "d", "_", "1", "d">>

----------------------------------------------------------------------------
(* C21 *)

\* C21: when the watchlist file is missing or corrupt, the watchlist after
\* load_watchlist is the default list AAPL, TSLA, MSFT, GOOGL, NVDA, and
\* the application does not start with an empty watchlist.
C21_LoadFallback ==
  (app.phase = "loaded" /\ app.file.kind \in {"missing", "corrupt"})
  => /\ app.watchlist = <<"AAPL", "TSLA", "MSFT", "GOOGL", "NVDA">>
     /\ app.watchlist # <<>>

----------------------------------------------------------------------------
(* C22 *)

\* C22: get_stock_data holds no lock and no marker of a fetch in progress:
\* two callers that look up the same key while it has no fresh entry can
\* both miss and both ask the provider; the cache then still has one entry
\* for the key, the one of the caller that stored last.
C22_LastWriterWins ==
  app.phase = "race"
  => /\ DOMAIN cache = DOMAIN app.lastStore
     /\ \A k \in DOMAIN cache : cache[k] = app.lastStore[k].entry
     /\ \A w \in Workers :
          (app.w[w].pc = "idle" /\ app.w[w].result = "provider"
             /\ app.lastStore[app.w[w].key].by = w)
          => cache[app.w[w].key] = app.w[w].entry

\* both callers missed the same key, the chart load while the update thread
\* was fetching; both asked the provider and stored, and the cache has the
\* entry of the chart load, which is not the one the update thread stored
C22_Witness ==
  /\ app.phase = "race"
  /\ \A w \in Workers : app.w[w].pc = "idle" /\ app.w[w].result = "provider"
  /\ app.w["chart"].raced
  /\ app.w["chart"].key = app.w["update"].key
  /\ app.lastStore[app.w["chart"].key].by = "chart"
  /\ cache[app.w["chart"].key] = app.w["chart"].entry
  /\ app.w["update"].entry # app.w["chart"].entry

----------------------------------------------------------------------------
(* C25 *)

\* C25: clear_cache_and_reload with a symbol selected removes every cache
\* entry of that symbol, whatever its period, and no entry of another
\* symbol; the chart load that follows misses the cache and asks the
\* provider.
C25_ClearExact ==
  (app.phase = "chart" /\ app.lastClear.symbol # <<>>)
  => /\ \A p \in Periods :
          KeyOf(app.lastClear.symbol, p) \notin DOMAIN app.lastClear.cleared
     /\ \A s2 \in Symbols \ {app.lastClear.symbol}, p \in Periods :
          KeyOf(s2, p) \in DOMAIN app.lastClear.before
          => /\ KeyOf(s2, p) \in DOMAIN app.lastClear.cleared
             /\ app.lastClear.cleared[KeyOf(s2, p)]
                  = app.lastClear.before[KeyOf(s2, p)]
     /\ app.lastClear.source # "cache"
     /\ app.lastClear.ticker # "unused"

----------------------------------------------------------------------------
(* C26 *)

\* C26: start_updates starts at most one update thread; once on_closing has
\* set is_updating to False the update loop begins at most one more
\* update_stock_data call, begins no new pass over the watchlist, and,
\* every fetch and sleep returning, exits.
C26_Shutdown ==
  /\ [](app.phase \in {"init", "running", "closing", "destroyed"}
        => /\ app.started <= 1
           /\ app.callsAfterClose <= 1
           /\ app.passesAfterClose = 0)
  /\ (Closed ~> app.pc = "exited")

\* the window was closed while the thread was past the flag test of the
\* first of three symbols: one more update_stock_data call, then the exit
C26_Witness ==
  /\ Closed
  /\ app.pc = "exited"
  /\ app.started = 1
  /\ app.callsAfterClose = 1
  /\ Len(app.snapshot) = 3
  /\ app.i = 2

====
